---- MODULE Spec2Model ----
(***************************************************************************)
(* A model of bot.py (the Artovix Telegram assistant): the conversation    *)
(* store (AdvancedMemory), the counter store (Analytics), the image        *)
(* provider chain (ImageGenerator.generate) and the registered message     *)
(* and callback handlers.                                                  *)
(*                                                                         *)
(* Texts are sequences of one-character strings, so that str.split,        *)
(* str.count, str.startswith and slicing are computed as Python does.      *)
(***************************************************************************)
EXTENDS Integers, Sequences, FiniteSets, TLC

(***************************************************************************)
(* Bounds of the model.                                                    *)
(***************************************************************************)
\* number of concurrently running handler threads in SpecConc
NumProcs == 2

(***************************************************************************)
(* Text helpers: Python's str operations on sequences of characters.       *)
(***************************************************************************)
Whitespace == {" ", "\n"}

\* s[:n]
TakeFirst(s, n) == IF n >= Len(s) THEN s ELSE SubSeq(s, 1, n)

\* s[-n:]
TakeLast(s, n) == IF n >= Len(s) THEN s ELSE SubSeq(s, Len(s) - n + 1, Len(s))

\* s.startswith(pat)
StartsWith(s, pat) == Len(s) >= Len(pat) /\ SubSeq(s, 1, Len(pat)) = pat

\* the positions at or after i where pat occurs in s
MatchesFrom(s, pat, i) ==
    {j \in i..(Len(s) - Len(pat) + 1) : SubSeq(s, j, j + Len(pat) - 1) = pat}

\* the scan takes the leftmost occurrence at or after i and goes on behind it
RECURSIVE CountFrom(_, _, _)
CountFrom(s, pat, i) ==
    LET found == MatchesFrom(s, pat, i) IN
    IF found = {} THEN 0
    ELSE 1 + CountFrom(s, pat, (CHOOSE j \in found : \A k \in found : j <= k) + Len(pat))

\* s.count(pat): the number of non-overlapping occurrences, scanning from the left
StrCount(s, pat) == CountFrom(s, pat, 1)

RECURSIVE SplitFrom(_, _, _, _)
SplitFrom(s, i, cur, acc) ==
    IF i > Len(s) THEN (IF cur = <<>> THEN acc ELSE Append(acc, cur))
    ELSE IF s[i] \in Whitespace
         THEN SplitFrom(s, i + 1, <<>>, IF cur = <<>> THEN acc ELSE Append(acc, cur))
         ELSE SplitFrom(s, i + 1, Append(cur, s[i]), acc)

\* s.split(): the words of s, separated by runs of whitespace
Split(s) == SplitFrom(s, 1, <<>>, <<>>)

RECURSIVE Join(_)
\* ' '.join(words)
Join(words) ==
    IF Len(words) = 0 THEN <<>>
    ELSE IF Len(words) = 1 THEN words[1]
    ELSE words[1] \o <<" ">> \o Join(Tail(words))

\* s.strip()
RECURSIVE LStrip(_)
LStrip(s) == IF s # <<>> /\ s[1] \in Whitespace THEN LStrip(Tail(s)) ELSE s

RECURSIVE RStrip(_)
RStrip(s) ==
    IF s # <<>> /\ s[Len(s)] \in Whitespace THEN RStrip(SubSeq(s, 1, Len(s) - 1)) ELSE s

\* the text as it is, blanks included
Strip_Nothing(s) == s

Strip(s) == RStrip(LStrip(s))

(***************************************************************************)
(* clean_markdown (bot.py 279-299)                                         *)
(***************************************************************************)
\* text[:4000]
MaxTextLen == 4000

\* the backtick character; it is named, since a string literal of the module cannot
\* hold it
Backtick == "bt"

Fence == <<Backtick, Backtick, Backtick>>

CloseFence(text) == IF StrCount(text, Fence) % 2 # 0 THEN text \o <<"\n">> \o Fence ELSE text

CloseBold(text) == IF StrCount(text, <<"*", "*">>) % 2 # 0 THEN text \o <<"*", "*">> ELSE text

CloseUnderscore(text) == IF StrCount(text, <<"_">>) % 2 # 0 THEN text \o <<"_">> ELSE text

CloseStar(text) == IF StrCount(text, <<"*">>) % 2 # 0 THEN text \o <<"*">> ELSE text

\* the cap applied to the text as it came in, the closing markers appended after it
clean_markdown_CapFirst(text) ==
    IF text = <<>> THEN text
    ELSE CloseStar(CloseUnderscore(CloseBold(CloseFence(TakeFirst(text, MaxTextLen)))))

clean_markdown(text) ==
    IF text = <<>> THEN text
    ELSE TakeFirst(CloseStar(CloseUnderscore(CloseBold(CloseFence(text)))), MaxTextLen)

(***************************************************************************)
(* The state.                                                              *)
(***************************************************************************)
VARIABLES
    memfile,    \* artovix_memory.json: the document, user id -> stored entry
    memLock,    \* AdvancedMemory.lock: 0 when free, else the thread holding it
    pc,         \* SpecConc: each handler thread's position
    op,         \* the operation each thread runs (SpecLocks: with its lock steps to come)
    loc,        \* SpecConc: each thread's local variables (data, io_failed)
    groq,       \* groq_client is configured (GROQ_API_KEY was set at import)
    gen,        \* the last call of ImageGenerator.generate: its inputs and what it did
    metrics,    \* analytics.db: the rows of table metrics, in insertion order
    now,        \* the clock (seconds; the database's and time.time())
    tempFiles,  \* the files under temp/, each named by <<chat id, int(time.time())>>
    obs,        \* what the handler of the last event did: replies, API calls, raise
    nEvents,    \* the number of events handled so far
    stats,      \* the last call of Analytics.get_current_metrics and what it returned
    md,         \* the last call of clean_markdown: its argument and what it returned
    dbLock      \* Analytics.lock: 0 when free, else the thread holding it

dispVars == <<metrics, now, tempFiles, obs, nEvents, stats, md>>
vars ==
    <<memfile, memLock, pc, op, loc, groq, gen, metrics, now, tempFiles, obs, nEvents, stats,
      md, dbLock>>

(***************************************************************************)
(* Data model: user profiles and the stored document.                      *)
(***************************************************************************)
Users == {"u1", "u2"}

ImageModes == {"auto", "flux", "pollinations", "creative"}

\* settings == {}
NoSettings == [k \in {} |-> "auto"]

\* settings == {"image_model": m}
SettingsOf(m) == [k \in {"image_model"} |-> m]

\* {"role": role, "content": content}
Turn(role, content) == [role |-> role, content |-> content]

\* a user_data dict as get_user_data returns it
Profile(history, settings) == [history |-> history, settings |-> settings]

\* an entry of the document: a dict (legacy = FALSE) or a bare list of turns
StoredDict(p) == [legacy |-> FALSE, history |-> p.history, settings |-> p.settings]
StoredList(l) == [legacy |-> TRUE, history |-> l, settings |-> NoSettings]

\* data == {}
EmptyDoc == [u \in {} |-> StoredList(<<>>)]

\* the clock at the start: noon of the first day
NoonTime == 43200

\* an update of the transport: a message (content_type "text", "voice" or "photo") or
\* a callback query (content_type "callback", data the tag of the button pressed)
Update(content_type, u, text, caption, data) ==
    [content_type |-> content_type, chat |-> u, text |-> text, caption |-> caption,
     data |-> data]

(***************************************************************************)
(* AdvancedMemory (bot.py 196-246), the parts that touch no lock.          *)
(***************************************************************************)
\* load(): the document read, or {} when the read raised (the file is absent: {} too)
LoadResult(file, readFails) == IF readFails THEN EmptyDoc ELSE file

\* a new user starts with a default image mode
UserDataOf_DefaultMode(data, u) ==
    IF u \notin DOMAIN data THEN Profile(<<>>, SettingsOf("auto"))
    ELSE IF data[u].legacy THEN Profile(data[u].history, NoSettings)
    ELSE Profile(data[u].history, data[u].settings)

\* a legacy list is not migrated: its user starts afresh
UserDataOf_LegacyDropped(data, u) ==
    IF u \notin DOMAIN data \/ data[u].legacy THEN Profile(<<>>, NoSettings)
    ELSE Profile(data[u].history, data[u].settings)

\* get_user_data, after data = self.load()
UserDataOf(data, u) ==
    IF u \notin DOMAIN data THEN Profile(<<>>, NoSettings)
    ELSE IF data[u].legacy THEN Profile(data[u].history, NoSettings)
    ELSE Profile(data[u].history, data[u].settings)

\* data[user_id] = user_data
SetEntry(data, u, p) ==
    [v \in (DOMAIN data) \cup {u} |-> IF v = u THEN StoredDict(p) ELSE data[v]]

\* user_data["settings"].get(key, default), for key "image_model"
SettingGet(p, default) ==
    IF "image_model" \in DOMAIN p.settings THEN p.settings["image_model"] ELSE default

\* user_data["settings"][key] = value
SettingPut(p, value) == Profile(p.history, SettingsOf(value))

\* save(data): what the file holds afterwards: the data, or what it held when the
\* write raised (the exception is logged and swallowed)
FileAfterSave(file, data, saveFails) == IF saveFails THEN file ELSE data

(***************************************************************************)
(* ImageGenerator.generate (bot.py 318-451).  An HTTP response is          *)
(* [exc, status, image]: the request raised, or it returned `status` with  *)
(* a content type that names an image or does not.                         *)
(***************************************************************************)
Resp(exc, status, image) == [exc |-> exc, status |-> status, image |-> image]

RespImage == Resp(FALSE, 200, TRUE)       \* 200, Content-Type image/...
RespNonImage == Resp(FALSE, 200, FALSE)   \* 200, another content type
RespGone == Resp(FALSE, 410, FALSE)       \* 410, the endpoint moved
RespError == Resp(FALSE, 500, FALSE)      \* another status
RespRaise == Resp(TRUE, 0, FALSE)         \* requests raised (timeout, connection)

Responses == {RespImage, RespNonImage, RespGone, RespError, RespRaise}

\* what the outside world answers during one call of generate: each provider's
\* response if it is asked, and whether the Groq completion returns or raises
Envs ==
    [hf : Responses, router : Responses \ {RespGone}, poll : Responses \ {RespGone},
     creative : Responses \ {RespGone}, groq_ok : BOOLEAN]

\* one request made to a provider, with the response it got
Call(provider, resp) == [provider |-> provider, resp |-> resp]

\* the values generate returns: response.content of a provider (image says whether the
\* content is an image), a {'type': 'text', ...} payload, or None
Bytes(source, image) == [kind |-> "bytes", source |-> source, image |-> image]
TextPayload(variant) == [kind |-> "text", source |-> variant, image |-> FALSE]
None == [kind |-> "none", source |-> "none", image |-> FALSE]

\* a stage's outcome: it returned res, or the chain goes on; calls are its requests
Returned(res, calls) == [done |-> TRUE, res |-> res, calls |-> calls]
GoesOn(calls) == [done |-> FALSE, res |-> None, calls |-> calls]

\* the first stage asks its provider and hands on to the next stage whatever the answer
HFStage_HandsOn(env) == GoesOn(<<Call("hf", env.hf)>>)

\* the router URL is tried after every status of the first URL that is not 200
HFStage_RetryAnyStatus(env) ==
    LET first == <<Call("hf", env.hf)>>
        both == first \o <<Call("hf_router", env.router)>>
    IN  IF env.hf.exc THEN GoesOn(first)
        ELSE IF env.hf.status = 200
             THEN (IF env.hf.image THEN Returned(Bytes("hf", TRUE), first) ELSE GoesOn(first))
        ELSE IF env.router.exc THEN GoesOn(both)
        ELSE IF env.router.status = 200
             THEN Returned(Bytes("hf_router", env.router.image), both)
        ELSE GoesOn(both)

\* 1. Hugging Face, with the router retry on 410 (bot.py 332-375)
HFStage(env) ==
    LET first == <<Call("hf", env.hf)>>
        both == first \o <<Call("hf_router", env.router)>>
    IN  IF env.hf.exc THEN GoesOn(first)
        ELSE IF env.hf.status = 200
             THEN (IF env.hf.image THEN Returned(Bytes("hf", TRUE), first) ELSE GoesOn(first))
        ELSE IF env.hf.status = 410
             THEN (IF env.router.exc THEN GoesOn(both)
                   ELSE IF env.router.status = 200
                        THEN Returned(Bytes("hf_router", env.router.image), both)
                        ELSE GoesOn(both))
        ELSE GoesOn(first)

\* 2. Pollinations.ai (bot.py 378-393)
PollinationsStage(env) ==
    LET c == <<Call("pollinations", env.poll)>>
    IN  IF ~env.poll.exc /\ env.poll.status = 200 /\ env.poll.image
        THEN Returned(Bytes("pollinations", TRUE), c)
        ELSE GoesOn(c)

\* 3. the stylized Pollinations request (bot.py 396-410)
CreativeStage(env) ==
    LET c == <<Call("creative", env.creative)>>
    IN  IF ~env.creative.exc /\ env.creative.status = 200
        THEN Returned(Bytes("creative", env.creative.image), c)
        ELSE GoesOn(c)

\* f"Create a detailed visual description for: {clean_prompt}": the literal is one atom
DescriptionPrompt(clean_prompt) == <<"Create a detailed visual description for: ">> \o clean_prompt

\* a call of the Groq API: which one, its message list, and whether it returned
GroqCall(purpose, messages, ok) == [purpose |-> purpose, messages |-> messages, ok |-> ok]

\* the text fallback of auto mode (bot.py 413-444)
FallbackModes == {"auto"}
TextFallback(clean_prompt, groqOn, env) ==
    IF ~groqOn THEN [res |-> TextPayload("not_configured"), groqCalls |-> <<>>]
    ELSE [res |-> IF env.groq_ok THEN TextPayload("description") ELSE None,
          groqCalls |-> <<GroqCall("image_description",
                                   <<Turn("user", DescriptionPrompt(clean_prompt))>>,
                                   env.groq_ok)>>]

\* the modes that try each provider (bot.py 332, 378, 396)
HFModes == {"auto", "flux"}
PollinationsModes == {"auto", "pollinations"}
CreativeModes == {"auto", "creative"}

\* generate(prompt, model_type): [res, calls, groqCalls]
Generate(prompt, mode, groqOn, env) ==
    LET clean_prompt == Strip(prompt)
        hf == IF mode \in HFModes THEN HFStage(env) ELSE GoesOn(<<>>)
        po == IF ~hf.done /\ mode \in PollinationsModes THEN PollinationsStage(env) ELSE GoesOn(<<>>)
        cr == IF ~hf.done /\ ~po.done /\ mode \in CreativeModes THEN CreativeStage(env) ELSE GoesOn(<<>>)
        calls == hf.calls \o po.calls \o cr.calls
        fb == TextFallback(clean_prompt, groqOn, env)
    IN  IF clean_prompt = <<>> THEN [res |-> None, calls |-> <<>>, groqCalls |-> <<>>]
        ELSE IF hf.done THEN [res |-> hf.res, calls |-> calls, groqCalls |-> <<>>]
        ELSE IF po.done THEN [res |-> po.res, calls |-> calls, groqCalls |-> <<>>]
        ELSE IF cr.done THEN [res |-> cr.res, calls |-> calls, groqCalls |-> <<>>]
        ELSE IF mode \in FallbackModes
             THEN [res |-> fb.res, calls |-> calls, groqCalls |-> fb.groqCalls]
        ELSE [res |-> None, calls |-> calls, groqCalls |-> <<>>]

\* the record of one call of generate
GenRecord(prompt, mode, env, out) ==
    [called |-> TRUE, prompt |-> prompt, mode |-> mode, env |-> env,
     res |-> out.res, calls |-> out.calls, groqCalls |-> out.groqCalls]

EnvAllFail ==
    [hf |-> RespRaise, router |-> RespRaise, poll |-> RespRaise, creative |-> RespRaise,
     groq_ok |-> FALSE]

\* generate has not been called
NoGen ==
    [called |-> FALSE, prompt |-> <<>>, mode |-> "auto", env |-> EnvAllFail,
     res |-> None, calls |-> <<>>, groqCalls |-> <<>>]

(***************************************************************************)
(* What the outside world answers while one handler runs. A handler asks   *)
(* for some of the answers only; the others stay as in DefaultEnv.         *)
(***************************************************************************)
\* a completion of the Groq API: it raises, or it returns this content
GroqRaises == [ok |-> FALSE, content |-> <<>>]
GroqReturns(content) == [ok |-> TRUE, content |-> content]

\* readFails, readFails2: the first and the second read of the store raise;
\* saveFails: the write of the store raises; actionFails: the first direct call of
\* the transport (send_chat_action, get_file) raises; groqOut: the completion or
\* transcription; send, send2: how the last and the earlier safe_send_message end;
\* logOk: the metric row is inserted; editFails, answerFails, exceptAnswerFails:
\* edit_message_text and the two answer_callback_query calls raise; img: the image
\* providers; photoFails, deleteFails: send_photo and delete_message raise;
\* fileFails: a call made before the voice file is written raises; transcription:
\* the answer of the transcription API; queryFails: the metric queries raise
DefaultEnv ==
    [readFails |-> FALSE, readFails2 |-> FALSE, saveFails |-> FALSE, actionFails |-> FALSE,
     groqOut |-> GroqRaises, send |-> "ok", send2 |-> "ok", logOk |-> TRUE,
     editFails |-> FALSE, answerFails |-> FALSE, exceptAnswerFails |-> FALSE,
     img |-> EnvAllFail, photoFails |-> FALSE, deleteFails |-> FALSE,
     fileFails |-> FALSE, transcription |-> GroqRaises, queryFails |-> FALSE]

\* no event is being handled
NoObs ==
    [handler |-> "none", update |-> Update("none", "u1", <<>>, <<>>, "none"), env |-> DefaultEnv,
     before |-> EmptyDoc, logBefore |-> <<>>, filesBefore |-> {},
     sent |-> <<>>, groqCalls |-> <<>>, raised |-> FALSE]

\* {"RPM": 0, "TPM": 0, "RPD": 0, "breakdown": {}}
ZeroMetrics == [RPM |-> 0, TPM |-> 0, RPD |-> 0, breakdown |-> [ty \in {} |-> 0]]

\* get_current_metrics has not been called
NoStats == [asked |-> FALSE, at |-> 0, log |-> <<>>, failed |-> FALSE, result |-> ZeroMetrics]

\* clean_markdown has not been called
NoMarkdown == [called |-> FALSE, text |-> <<>>, result |-> <<>>]

DispatchIdle ==
    /\ metrics = <<>>
    /\ now = NoonTime
    /\ tempFiles = {}
    /\ obs = NoObs
    /\ nEvents = 0
    /\ stats = NoStats
    /\ md = NoMarkdown

(***************************************************************************)
(* Sample texts and profiles the inputs are drawn from.                    *)
(***************************************************************************)
P_red_cat == <<"r", "e", "d", " ", "c", "a", "t">>
T_two_words == <<"a", " ", "b">>

Prompts == {<<"c", "a", "t">>, P_red_cat, <<" ">>}

T_hi == <<"h", "i">>
T_ok == <<"o", "k">>

SampleProfiles ==
    { Profile(<<>>, NoSettings),
      Profile(<<Turn("user", T_hi), Turn("assistant", T_ok)>>, SettingsOf("flux")) }

(***************************************************************************)
(* SpecConc: handler threads running store operations concurrently.  Each  *)
(* `with self.lock:` block is two steps, the acquisition of the lock and   *)
(* the file operation that ends with its release.                          *)
(***************************************************************************)
Procs == 1 .. NumProcs

NoOp == [kind |-> "none", user |-> "u1", profile |-> Profile(<<>>, NoSettings), code |-> <<>>]

NoLocals == [data |-> EmptyDoc, io_failed |-> FALSE]

ConcInitDocs ==
    { EmptyDoc,
      [u \in {"u1"} |-> StoredDict(Profile(<<Turn("user", T_ok)>>, SettingsOf("creative")))] }

\* no handler thread has started
ConcIdle ==
    /\ memLock = 0
    /\ dbLock = 0
    /\ pc = [p \in Procs |-> "idle"]
    /\ op = [p \in Procs |-> NoOp]
    /\ loc = [p \in Procs |-> NoLocals]

InitConc ==
    /\ memfile \in ConcInitDocs
    /\ ConcIdle
    /\ groq \in BOOLEAN
    /\ gen = NoGen
    /\ DispatchIdle

\* a handler thread calls memory.save_user_data(u, prof)
CallSaveUserData(p, u, prof) ==
    /\ pc[p] = "idle"
    /\ op' = [op EXCEPT ![p] = [kind |-> "save_user_data", user |-> u, profile |-> prof,
                                code |-> <<>>]]
    /\ pc' = [pc EXCEPT ![p] = "sud_load"]
    /\ UNCHANGED <<memfile, memLock, loc, groq, gen, dispVars, dbLock>>

\* load(): `with self.lock:` entered
LoadAcquire(p) ==
    /\ pc[p] = "sud_load"
    /\ memLock = 0
    /\ memLock' = p
    /\ pc' = [pc EXCEPT ![p] = "sud_load_locked"]
    /\ UNCHANGED <<memfile, op, loc, groq, gen, dispVars, dbLock>>

\* load(): the file is read (or the read raises, and {} is returned); the lock is released
LoadRead(p, readFails) ==
    /\ pc[p] = "sud_load_locked"
    /\ memLock = p
    /\ loc' = [loc EXCEPT ![p] = [data |-> LoadResult(memfile, readFails),
                                  io_failed |-> @.io_failed \/ readFails]]
    /\ memLock' = 0
    /\ pc' = [pc EXCEPT ![p] = "sud_save"]
    /\ UNCHANGED <<memfile, op, groq, gen, dispVars, dbLock>>

\* save(data): `with self.lock:` entered
SaveAcquire(p) ==
    /\ pc[p] = "sud_save"
    /\ memLock = 0
    /\ memLock' = p
    /\ pc' = [pc EXCEPT ![p] = "sud_save_locked"]
    /\ UNCHANGED <<memfile, op, loc, groq, gen, dispVars, dbLock>>

\* data[user_id] = user_data; save(data): the file is rewritten (or the write raises);
\* the lock is released
SaveWrite(p, saveFails) ==
    /\ pc[p] = "sud_save_locked"
    /\ memLock = p
    /\ memfile' = FileAfterSave(memfile, SetEntry(loc[p].data, op[p].user, op[p].profile), saveFails)
    /\ loc' = [loc EXCEPT ![p].io_failed = @ \/ saveFails]
    /\ memLock' = 0
    /\ pc' = [pc EXCEPT ![p] = "done"]
    /\ UNCHANGED <<op, groq, gen, dispVars, dbLock>>

NextConc ==
    \/ \E p \in Procs, u \in Users, prof \in SampleProfiles : CallSaveUserData(p, u, prof)
    \/ \E p \in Procs : LoadAcquire(p)
    \/ \E p \in Procs, readFails \in BOOLEAN : LoadRead(p, readFails)
    \/ \E p \in Procs : SaveAcquire(p)
    \/ \E p \in Procs, saveFails \in BOOLEAN : SaveWrite(p, saveFails)

SpecConc == InitConc /\ [][NextConc]_vars

(***************************************************************************)
(* SpecImage: one call of ImageGenerator.generate, for every prompt, mode   *)
(* and answer of the providers.                                            *)
(***************************************************************************)
\* generate is about to be called with these inputs
Pending(prompt, mode, env) ==
    [called |-> FALSE, prompt |-> prompt, mode |-> mode, env |-> env,
     res |-> None, calls |-> <<>>, groqCalls |-> <<>>]

InitImage ==
    /\ memfile = EmptyDoc
    /\ ConcIdle
    /\ groq \in BOOLEAN
    /\ gen \in {Pending(prompt, mode, env) : prompt \in Prompts, mode \in ImageModes, env \in Envs}
    /\ DispatchIdle

CallGenerate ==
    /\ ~gen.called
    /\ gen' = GenRecord(gen.prompt, gen.mode, gen.env, Generate(gen.prompt, gen.mode, groq, gen.env))
    /\ UNCHANGED <<memfile, memLock, pc, op, loc, groq, dispVars, dbLock>>

NextImage == CallGenerate

SpecImage == InitImage /\ [][NextImage]_vars

(***************************************************************************)
(* C1: for two distinct users A and B, after save_user_data(A, pA) and     *)
(* save_user_data(B, pB) have both completed in concurrent handlers with   *)
(* no I/O failure, the store holds pA under A and pB under B.              *)
(***************************************************************************)
C1_NoLostUpdate ==
    \A p, q \in Procs :
        ( /\ p # q
          /\ pc[p] = "done" /\ pc[q] = "done"
          /\ op[p].kind = "save_user_data" /\ op[q].kind = "save_user_data"
          /\ op[p].user # op[q].user
          /\ ~loc[p].io_failed /\ ~loc[q].io_failed )
        => /\ op[p].user \in DOMAIN memfile
           /\ memfile[op[p].user] = StoredDict(op[p].profile)
           /\ op[q].user \in DOMAIN memfile
           /\ memfile[op[q].user] = StoredDict(op[q].profile)

(***************************************************************************)
(* What the specification of the chain calls a failed provider: anything   *)
(* but HTTP 200 with an image content type; the primary provider is asked  *)
(* a second time, at the router URL, when its first answer is 410.         *)
(***************************************************************************)
SoftFailure(resp) == resp.exc \/ resp.status # 200 \/ ~resp.image

PrimaryFails(env) == SoftFailure(env.hf) /\ (~env.hf.exc /\ env.hf.status = 410 => SoftFailure(env.router))
SecondaryFails(env) == SoftFailure(env.poll)
TertiaryFails(env) == SoftFailure(env.creative)

(***************************************************************************)
(* C3: generate in auto mode with a non-empty prompt, when all three image *)
(* providers fail, returns a payload of type 'text' (the description, or   *)
(* the backend-not-configured payload) and never None, whatever the        *)
(* inference call does.                                                    *)
(***************************************************************************)
C3_AutoAlwaysTextPayload ==
    ( /\ gen.called
      /\ gen.mode = "auto"
      /\ Strip(gen.prompt) # <<>>
      /\ PrimaryFails(gen.env) /\ SecondaryFails(gen.env) /\ TertiaryFails(gen.env) )
    => gen.res.kind = "text"

(***************************************************************************)
(* C4: generate called with a specific mode (flux, pollinations, creative) *)
(* whose provider fails returns None, contacts no other image provider and *)
(* makes no inference call.                                                *)
(***************************************************************************)
OwnProviders(mode) ==
    IF mode = "flux" THEN {"hf", "hf_router"}
    ELSE IF mode = "pollinations" THEN {"pollinations"}
    ELSE {"creative"}

OwnProviderFails(mode, env) ==
    IF mode = "flux" THEN PrimaryFails(env)
    ELSE IF mode = "pollinations" THEN SecondaryFails(env)
    ELSE TertiaryFails(env)

C4_SpecificModeNoFallback ==
    ( /\ gen.called
      /\ gen.mode \in ImageModes \ {"auto"}
      /\ Strip(gen.prompt) # <<>>
      /\ OwnProviderFails(gen.mode, gen.env) )
    => /\ gen.res = None
       /\ \A i \in 1 .. Len(gen.calls) : gen.calls[i].provider \in OwnProviders(gen.mode)
       /\ gen.groqCalls = <<>>

(***************************************************************************)
(* The transport: messages, callback queries, and the order in which       *)
(* telebot tries the registered handlers (the first whose filters pass     *)
(* handles the event, in registration order).                              *)
(***************************************************************************)
\* the command names of the @bot.message_handler(commands=[...]) decorators
W ==
    [ start |-> <<"s", "t", "a", "r", "t">>,
      artovix |-> <<"a", "r", "t", "o", "v", "i", "x">>,
      hello |-> <<"h", "e", "l", "l", "o">>,
      draw |-> <<"d", "r", "a", "w">>,
      imagine |-> <<"i", "m", "a", "g", "i", "n", "e">>,
      generate |-> <<"g", "e", "n", "e", "r", "a", "t", "e">>,
      search |-> <<"s", "e", "a", "r", "c", "h">>,
      find |-> <<"f", "i", "n", "d">>,
      google |-> <<"g", "o", "o", "g", "l", "e">>,
      code |-> <<"c", "o", "d", "e">>,
      program |-> <<"p", "r", "o", "g", "r", "a", "m">>,
      debug |-> <<"d", "e", "b", "u", "g">>,
      stats |-> <<"s", "t", "a", "t", "s">>,
      analytics |-> <<"a", "n", "a", "l", "y", "t", "i", "c", "s">>,
      metrics |-> <<"m", "e", "t", "r", "i", "c", "s">>,
      reset |-> <<"r", "e", "s", "e", "t">>,
      status |-> <<"s", "t", "a", "t", "u", "s">>,
      help |-> <<"h", "e", "l", "p">>,
      flux |-> <<"f", "l", "u", "x">>,
      pollinations |-> <<"p", "o", "l", "l", "i", "n", "a", "t", "i", "o", "n", "s">>,
      pollin |-> <<"p", "o", "l", "l", "i", "n">>,
      creative |-> <<"c", "r", "e", "a", "t", "i", "v", "e">>,
      art |-> <<"a", "r", "t">>,
      auto |-> <<"a", "u", "t", "o">> ]

TextMessage(u, text) == Update("text", u, text, <<>>, "none")
VoiceMessage(u) == Update("voice", u, <<>>, <<>>, "none")
\* s up to its first occurrence of ch: s.split(ch)[0]
RECURSIVE UpTo(_, _)
UpTo(s, ch) == IF s = <<>> \/ s[1] = ch THEN <<>> ELSE <<s[1]>> \o UpTo(Tail(s), ch)

\* no command: not a word, since it holds whitespace
NoCommand == <<" ">>

\* telebot.util.extract_command: the first word without its slash and its @botname
ExtractCommand(text) ==
    IF StartsWith(text, <<"/">>) THEN Tail(UpTo(Split(text)[1], "@")) ELSE NoCommand

ByCommands(name, commands) == [name |-> name, content_type |-> "text", commands |-> commands]
ByContent(name, content_type) == [name |-> name, content_type |-> content_type, commands |-> {}]

\* the message handlers, in the order the module registers them
MessageHandlers ==
    << ByCommands("start_command", {W.start, W.artovix, W.hello}),
       ByCommands("handle_draw", {W.draw, W.imagine, W.generate}),
       ByCommands("handle_search", {W.search, W.find, W.google}),
       ByCommands("handle_code", {W.code, W.program, W.debug}),
       ByCommands("handle_stats", {W.stats, W.analytics, W.metrics}),
       ByCommands("handle_reset", {W.reset}),
       ByCommands("handle_status", {W.status}),
       ByCommands("handle_help", {W.help}),
       ByCommands("handle_draw_default", {W.draw, W.imagine, W.generate}),
       ByCommands("handle_flux", {W.flux}),
       ByCommands("handle_pollinations", {W.pollinations, W.pollin}),
       ByCommands("handle_creative", {W.creative, W.art}),
       ByCommands("handle_auto", {W.auto}),
       ByContent("handle_voice", "voice"),
       ByContent("handle_photo", "photo"),
       ByContent("handle_all_messages", "text") >>

\* a handler's filters pass: the content type, and the command when it names commands
Matches(h, msg) ==
    /\ msg.content_type = h.content_type
    /\ h.commands # {} => ExtractCommand(msg.text) \in h.commands

RECURSIVE FirstMatch(_, _)
FirstMatch(handlers, msg) ==
    IF handlers = <<>> THEN "none"
    ELSE IF Matches(handlers[1], msg) THEN handlers[1].name
    ELSE FirstMatch(Tail(handlers), msg)

\* the handler that handles msg
Dispatch(msg) == FirstMatch(MessageHandlers, msg)

\* a callback query: the button's tag and the chat of the message that carries it
CallbackQuery(u, data) == Update("callback", u, <<>>, <<>>, data)

\* the tag of the button that selects mode m
SetModelTag(m) ==
    CASE m = "auto" -> "set_model_auto"
      [] m = "flux" -> "set_model_flux"
      [] m = "pollinations" -> "set_model_pollinations"
      [] m = "creative" -> "set_model_creative"

\* call.data.startswith('set_model_')
IsSetModel(data) == \E m \in ImageModes : data = SetModelTag(m)

\* call.data.replace('set_model_', '')
ModelOfTag(data) == CHOOSE m \in ImageModes : data = SetModelTag(m)

\* the callback handlers, in registration order: handle_model_selection, handle_callback
DispatchCallback(call) ==
    IF IsSetModel(call.data) THEN "handle_model_selection" ELSE "handle_callback"

(***************************************************************************)
(* safe_send_message (bot.py 301-313) and the rows of the metric log.      *)
(***************************************************************************)
\* the first send is delivered; or it raises and the plain-text resend is delivered;
\* or both raise
SendOutcomes == {"ok", "plain", "failed"}

RECURSIVE Without(_, _)
Without(s, chars) ==
    IF s = <<>> THEN <<>>
    ELSE IF s[1] \in chars THEN Without(Tail(s), chars)
    ELSE <<s[1]>> \o Without(Tail(s), chars)

\* text.replace('*', '').replace('_', '').replace('`', '').replace('~', '')
Plain(text) == Without(text, {"*", "_", Backtick, "~"})

\* a message of the bot: its kind (which literal or template), the variable text it
\* carries as it reached the transport, and how the send ended
Msg(kind, text, how) == [kind |-> kind, text |-> text, how |-> how]

safe_send_message(kind, text, how) == Msg(kind, IF how = "ok" THEN text ELSE Plain(text), how)

\* a direct call of the transport (edit_message_text, answer_callback_query,
\* send_photo, bot.send_message): delivered, or it raises
DirectCall(kind, fails) == Msg(kind, <<>>, IF fails THEN "failed" ELSE "ok")

\* a row of table metrics (bot.py 124-132)
Row(u, t, tokens, request_type) ==
    [user_id |-> u, timestamp |-> t, tokens |-> tokens, request_type |-> request_type]

\* log_request: the row is inserted, or the insert raises and is swallowed
\* the table holds the last request only
log_request_LastOnly(log, u, tokens, request_type, t, ok) ==
    IF ok THEN <<Row(u, t, tokens, request_type)>> ELSE log

log_request(log, u, tokens, request_type, t, ok) ==
    IF ok THEN Append(log, Row(u, t, tokens, request_type)) ELSE log

(***************************************************************************)
(* What a handler does, as a record: the stores after it, the messages it  *)
(* sent, the API calls it made, and whether an exception left it.          *)
(***************************************************************************)
Effect(file, log, files, sent, groqCalls, g, raised) ==
    [memfile |-> file, metrics |-> log, tempFiles |-> files,
     sent |-> sent, groqCalls |-> groqCalls, gen |-> g, raised |-> raised]

\* only messages were sent
Replies(sent) == Effect(memfile, metrics, tempFiles, sent, <<>>, NoGen, FALSE)

\* the dispatcher waits for the next update
Polling == obs.handler = "none"

\* the update is handed to the handler `name`, which runs in environment e with effect
\* eff; obs keeps the update, the environment and the stores as the handler found them
Handled(name, update, e, effect) ==
    /\ Polling
    /\ \E eff \in {effect} :
          /\ memfile' = eff.memfile
          /\ metrics' = eff.metrics
          /\ tempFiles' = eff.tempFiles
          /\ gen' = eff.gen
          /\ obs' = [handler |-> name, update |-> update, env |-> e,
                     before |-> memfile, logBefore |-> metrics, filesBefore |-> tempFiles,
                     sent |-> eff.sent, groqCalls |-> eff.groqCalls, raised |-> eff.raised]
    /\ nEvents' = nEvents + 1
    /\ UNCHANGED <<memLock, pc, op, loc, groq, now, stats, md, dbLock>>

\* the handler has returned (or raised into the polling loop, which logs and goes on):
\* the dispatcher takes the next update
ReturnToPolling ==
    /\ ~Polling
    /\ obs' = NoObs
    /\ gen' = NoGen
    /\ UNCHANGED <<memfile, memLock, pc, op, loc, groq, metrics, now, tempFiles, nEvents, stats, md, dbLock>>

(***************************************************************************)
(* handle_all_messages (bot.py 1153-1225): a free-text chat turn.          *)
(***************************************************************************)
\* the persona text, as one atom
SYSTEM_PROMPT == <<"SYSTEM_PROMPT">>

\* history[-4:]
ContextTurns == 4
ContextOf_Whole(history) == history
ContextOf(history) == TakeLast(history, ContextTurns)

\* if len(history) > 20: history = history[-20:]
HistoryCap == 20
LimitHistory_Never(history) == history
LimitHistory(history) == IF Len(history) > HistoryCap THEN TakeLast(history, HistoryCap) ELSE history

\* the message list of the chat completion (bot.py 1167-1171)
ChatMessages(history, text) ==
    <<Turn("system", SYSTEM_PROMPT)>> \o ContextOf(history) \o <<Turn("user", text)>>

\* the limit applied to the history as it was read, the two new turns put behind it
ExtendHistory_CapFirst(history, text, reply) ==
    TakeLast(history, HistoryCap) \o <<Turn("user", text), Turn("assistant", reply)>>

\* history.extend([user turn, assistant turn]) and the limit (bot.py 1190-1197)
ExtendHistory(history, text, reply) ==
    LimitHistory(history \o <<Turn("user", text), Turn("assistant", reply)>>)

\* a completion: it raises, or it returns a text that opens a code fence
GroqOuts == {GroqRaises, GroqReturns(<<Backtick, Backtick, Backtick, "x">>)}

\* what the outside world does during one chat turn: the two reads of the store fail or
\* not, send_chat_action raises or not, the completion, the write of the store, the
\* send of the reply, the insert of the metric row
ChatEnvs ==
    { [DefaultEnv EXCEPT !.readFails = r, !.actionFails = a, !.groqOut = g,
                         !.readFails2 = r2, !.saveFails = w, !.send = s, !.logOk = l] :
        r \in BOOLEAN, a \in BOOLEAN, g \in GroqOuts, r2 \in BOOLEAN, w \in BOOLEAN,
        s \in SendOutcomes, l \in BOOLEAN }

\* the answers a chat turn does not come to ask for are fixed, so that each run of the
\* handler is drawn once
ChatEnvUsed(msg, e) ==
    LET skip == msg.text = <<>> \/ StartsWith(msg.text, <<"/">>)
        early == skip \/ e.actionFails \/ ~groq
    IN  /\ skip => ~e.actionFails /\ e.send = "ok"
        /\ early => ~e.readFails /\ e.groqOut = GroqRaises
        /\ (early \/ ~e.groqOut.ok) => ~e.readFails2 /\ ~e.saveFails /\ e.logOk

\* a turn whose completion raised is logged as a request all the same
handle_all_messages_CountsFailure(msg, e) ==
    LET u == msg.chat
        user_data == UserDataOf(LoadResult(memfile, e.readFails), u)
        messages == ChatMessages(user_data.history, msg.text)
        reply == clean_markdown(e.groqOut.content)
        new_data == Profile(ExtendHistory(user_data.history, msg.text, reply), user_data.settings)
        data == SetEntry(LoadResult(memfile, e.readFails2), u, new_data)
        tokens_used == Len(Split(msg.text)) + Len(Split(reply))
    IN  IF msg.text = <<>> \/ StartsWith(msg.text, <<"/">>) THEN Replies(<<>>)
        ELSE IF e.actionFails
             THEN Replies(<<safe_send_message("try_again_or_reset", <<>>, e.send)>>)
        ELSE IF ~groq
             THEN Replies(<<safe_send_message("backend_not_configured", <<>>, e.send)>>)
        ELSE IF ~e.groqOut.ok
             THEN Effect(memfile, log_request(metrics, u, tokens_used, "chat", now, TRUE),
                         tempFiles,
                         <<safe_send_message("apology", <<>>, e.send)>>,
                         <<GroqCall("chat", messages, FALSE)>>, NoGen, FALSE)
        ELSE Effect(FileAfterSave(memfile, data, e.saveFails),
                    log_request(metrics, u, tokens_used, "chat", now, e.logOk), tempFiles,
                    <<safe_send_message("chat_reply", reply, e.send)>>,
                    <<GroqCall("chat", messages, TRUE)>>, NoGen, FALSE)

handle_all_messages(msg, e) ==
    LET u == msg.chat
        user_data == UserDataOf(LoadResult(memfile, e.readFails), u)
        messages == ChatMessages(user_data.history, msg.text)
        reply == clean_markdown(e.groqOut.content)
        new_data == Profile(ExtendHistory(user_data.history, msg.text, reply), user_data.settings)
        data == SetEntry(LoadResult(memfile, e.readFails2), u, new_data)
        tokens_used == Len(Split(msg.text)) + Len(Split(reply))
    IN  IF msg.text = <<>> \/ StartsWith(msg.text, <<"/">>) THEN Replies(<<>>)
        ELSE IF e.actionFails
             THEN Replies(<<safe_send_message("try_again_or_reset", <<>>, e.send)>>)
        ELSE IF ~groq
             THEN Replies(<<safe_send_message("backend_not_configured", <<>>, e.send)>>)
        ELSE IF ~e.groqOut.ok
             THEN Effect(memfile, metrics, tempFiles,
                         <<safe_send_message("apology", <<>>, e.send)>>,
                         <<GroqCall("chat", messages, FALSE)>>, NoGen, FALSE)
        ELSE Effect(FileAfterSave(memfile, data, e.saveFails),
                    log_request(metrics, u, tokens_used, "chat", now, e.logOk), tempFiles,
                    <<safe_send_message("chat_reply", reply, e.send)>>,
                    <<GroqCall("chat", messages, TRUE)>>, NoGen, FALSE)

(***************************************************************************)
(* handle_reset (bot.py 834-851)                                           *)
(***************************************************************************)
ResetEnvs ==
    { [DefaultEnv EXCEPT !.readFails = r, !.readFails2 = r2, !.saveFails = w, !.send = s] :
        r \in BOOLEAN, r2 \in BOOLEAN, w \in BOOLEAN, s \in SendOutcomes }

handle_reset(msg, e) ==
    LET u == msg.chat
        user_data == UserDataOf(LoadResult(memfile, e.readFails), u)
        data == SetEntry(LoadResult(memfile, e.readFails2), u,
                         Profile(<<>>, user_data.settings))
    IN  Effect(FileAfterSave(memfile, data, e.saveFails),
               metrics, tempFiles, <<safe_send_message("memory_cleared", <<>>, e.send)>>,
               <<>>, NoGen, FALSE)

(***************************************************************************)
(* handle_model_selection (bot.py 1021-1049)                               *)
(***************************************************************************)
\* the store works, or one of the two reads or the write raises
StoreFaults ==
    { [readFails |-> FALSE, readFails2 |-> FALSE, saveFails |-> FALSE],
      [readFails |-> TRUE, readFails2 |-> FALSE, saveFails |-> FALSE],
      [readFails |-> FALSE, readFails2 |-> TRUE, saveFails |-> FALSE],
      [readFails |-> FALSE, readFails2 |-> FALSE, saveFails |-> TRUE] }

\* edit_message_text raises or not, then the answer_callback_query of the try block
\* when it is reached, then the one of the except block when it is reached
SelectionFaults ==
    { [editFails |-> FALSE, answerFails |-> FALSE, exceptAnswerFails |-> FALSE],
      [editFails |-> FALSE, answerFails |-> TRUE, exceptAnswerFails |-> FALSE],
      [editFails |-> FALSE, answerFails |-> TRUE, exceptAnswerFails |-> TRUE],
      [editFails |-> TRUE, answerFails |-> FALSE, exceptAnswerFails |-> FALSE],
      [editFails |-> TRUE, answerFails |-> FALSE, exceptAnswerFails |-> TRUE] }

SelectionEnvs ==
    { [DefaultEnv EXCEPT !.readFails = st.readFails, !.readFails2 = st.readFails2,
                         !.saveFails = st.saveFails, !.editFails = tr.editFails,
                         !.answerFails = tr.answerFails,
                         !.exceptAnswerFails = tr.exceptAnswerFails] :
        st \in StoreFaults, tr \in SelectionFaults }

\* memory.update_setting(user_id, "image_model", value): the document to write
update_setting(u, value, readFails, readFails2) ==
    SetEntry(LoadResult(memfile, readFails2), u,
             SettingPut(UserDataOf(LoadResult(memfile, readFails), u), value))

handle_model_selection(call, e) ==
    LET data == update_setting(call.chat, ModelOfTag(call.data), e.readFails, e.readFails2)
        edit == DirectCall("edit:model_set", e.editFails)
        answer == DirectCall("answer:model_set", e.answerFails)
        failed == DirectCall("answer:failed_to_update", e.exceptAnswerFails)
        sent == IF e.editFails THEN <<edit, failed>>
                ELSE IF e.answerFails THEN <<edit, answer, failed>>
                ELSE <<edit, answer>>
    IN  Effect(FileAfterSave(memfile, data, e.saveFails),
               metrics, tempFiles, sent, <<>>, NoGen,
               (e.editFails \/ e.answerFails) /\ e.exceptAnswerFails)

(***************************************************************************)
(* The commands that take an argument.                                     *)
(***************************************************************************)
\* message.text and len(message.text.split()) > 1
HasArgument_Always(text) == TRUE
HasArgument(text) == text # <<>> /\ Len(Split(text)) > 1

\* ' '.join(message.text.split()[1:])
ArgumentOf(text) == Join(Tail(Split(text)))

\* the thinking message, and its deletion when the message was delivered
Thinking(kind, prompt, e) ==
    <<safe_send_message(kind, TakeFirst(prompt, 60), e.send2)>>
    \o (IF e.send2 = "failed" THEN <<>> ELSE <<DirectCall("delete:" \o kind, e.deleteFails)>>)

(***************************************************************************)
(* handle_draw (bot.py 504-613)                                            *)
(***************************************************************************)
handle_draw(msg, e) ==
    LET u == msg.chat
        prompt == ArgumentOf(msg.text)
        out == Generate(prompt, "auto", groq, e.img)
        result == IF out.res.kind = "text"
                  THEN <<safe_send_message("image_concept", prompt, e.send)>>
                  ELSE IF out.res.kind = "bytes"
                  THEN <<DirectCall("photo", e.photoFails)>>
                       \o (IF e.photoFails
                           THEN <<safe_send_message("preview_unavailable", prompt, e.send)>>
                           ELSE <<>>)
                  ELSE <<safe_send_message("your_concept", prompt, e.send)>>
    IN  IF ~HasArgument(msg.text)
        THEN Replies(<<safe_send_message("draw_usage", <<>>, e.send)>>)
        ELSE Effect(memfile,
                    log_request(metrics, u, Len(Split(prompt)), "image_generation", now, e.logOk),
                    tempFiles, Thinking("creating", prompt, e) \o result,
                    out.groqCalls, GenRecord(prompt, "auto", e.img, out), FALSE)

(***************************************************************************)
(* process_image_generation (bot.py 915-999) and the handlers that call it *)
(* (bot.py 1001-1019). model_type is a mode, or "none" for None.           *)
(***************************************************************************)
\* memory.get_setting(user_id, "image_model", "auto")
get_setting(u, readFails) == SettingGet(UserDataOf(LoadResult(memfile, readFails), u), "auto")

\* f"image_gen_{active_model}"
ImageGenType(m) ==
    CASE m = "auto" -> "image_gen_auto"
      [] m = "flux" -> "image_gen_flux"
      [] m = "pollinations" -> "image_gen_pollinations"
      [] m = "creative" -> "image_gen_creative"

process_image_generation(msg, model_type, e) ==
    LET u == msg.chat
        prompt == ArgumentOf(msg.text)
        active_model == IF model_type # "none" THEN model_type ELSE get_setting(u, e.readFails)
        out == Generate(prompt, active_model, groq, e.img)
        result == IF out.res.kind = "text"
                  THEN <<safe_send_message("image_concept_model", prompt, e.send)>>
                  ELSE IF out.res.kind = "bytes"
                  THEN <<DirectCall("photo", e.photoFails)>>
                       \o (IF e.photoFails
                           THEN <<safe_send_message("failed_to_send_image", <<>>, e.send)>>
                           ELSE <<>>)
                  ELSE <<safe_send_message("generation_failed", <<>>, e.send)>>
    IN  IF ~HasArgument(msg.text)
        THEN Replies(<<safe_send_message("image_usage", <<>>, e.send)>>)
        ELSE Effect(memfile,
                    log_request(metrics, u, Len(Split(prompt)), ImageGenType(active_model),
                                now, e.logOk),
                    tempFiles, Thinking("creating_with", prompt, e) \o result,
                    out.groqCalls, GenRecord(prompt, active_model, e.img, out), FALSE)

handle_draw_default(msg, e) == process_image_generation(msg, "none", e)
handle_flux(msg, e) == process_image_generation(msg, "flux", e)
handle_pollinations(msg, e) == process_image_generation(msg, "pollinations", e)
handle_creative(msg, e) == process_image_generation(msg, "creative", e)
handle_auto(msg, e) == process_image_generation(msg, "auto", e)

(***************************************************************************)
(* handle_search (bot.py 618-696) and handle_code (bot.py 701-789)         *)
(***************************************************************************)
\* the prompt templates, each literal one atom
SearchPrompt(query) == <<"Search Query: ">> \o query \o <<"SEARCH_INSTRUCTIONS">>
CodePrompt(code_text) ==
    IF StrCount(code_text, Fence) > 0
    THEN <<"Analyze this code and provide: ">> \o code_text
    ELSE <<"Answer this programming question: ">> \o code_text

\* the part the two handlers share: kind names the command, tokens is what is logged
AskCommand(kind, request_type, msg, prompt, tokens, e) ==
    LET u == msg.chat
        call == GroqCall(kind, <<Turn("user", prompt)>>, e.groqOut.ok)
        answer == clean_markdown(e.groqOut.content)
    IN  IF ~HasArgument(msg.text)
        THEN Replies(<<safe_send_message(kind \o "_usage", <<>>, e.send)>>)
        ELSE IF e.actionFails
        THEN Replies(<<safe_send_message(kind \o "_unavailable", <<>>, e.send)>>)
        ELSE IF ~groq
        THEN Replies(<<safe_send_message("backend_not_configured", <<>>, e.send)>>)
        ELSE Effect(memfile, log_request(metrics, u, tokens, request_type, now, e.logOk),
                    tempFiles,
                    <<IF e.groqOut.ok THEN safe_send_message(kind \o "_results", answer, e.send)
                      ELSE safe_send_message(kind \o "_fallback", ArgumentOf(msg.text), e.send)>>,
                    <<call>>, NoGen, FALSE)

\* len(query.split()) * 30
SearchTokensPerWord == 30

handle_search(msg, e) ==
    LET query == ArgumentOf(msg.text)
    IN  AskCommand("search", "search", msg, SearchPrompt(query),
                   Len(Split(query)) * SearchTokensPerWord, e)

handle_code(msg, e) ==
    LET code_text == ArgumentOf(msg.text)
    IN  AskCommand("code", "code_analysis", msg, CodePrompt(code_text),
                   Len(Split(code_text)), e)

(***************************************************************************)
(* handle_voice (bot.py 1054-1095).  The clip is written to                *)
(* temp/voice_<chat>_<seconds>.ogg, here the pair <<chat, now>>.           *)
(***************************************************************************)
VoiceFile(u, t) == <<u, t>>

handle_voice(msg, e) ==
    LET u == msg.chat
        file == VoiceFile(u, now)
        written == tempFiles \cup {file}
        removed == tempFiles \ {file}
        transcription == e.transcription.content
        call == GroqCall("transcription", <<>>, e.transcription.ok)
        failed == safe_send_message("voice_failed", <<>>, e.send)
        echo == safe_send_message("transcribed", transcription, e.send2)
        chat == handle_all_messages([msg EXCEPT !.text = transcription], e)
    IN  IF e.fileFails THEN Replies(<<failed>>)
        ELSE IF ~groq
        THEN Effect(memfile, metrics, written,
                    <<safe_send_message("backend_not_configured", <<>>, e.send)>>,
                    <<>>, NoGen, FALSE)
        ELSE IF ~e.transcription.ok
        THEN Effect(memfile, metrics, written, <<failed>>, <<call>>, NoGen, FALSE)
        ELSE IF Len(Strip(transcription)) < 1
        THEN Effect(memfile, metrics, removed,
                    <<safe_send_message("could_not_hear", <<>>, e.send)>>,
                    <<call>>, NoGen, FALSE)
        ELSE Effect(chat.memfile, chat.metrics, removed, <<echo>> \o chat.sent,
                    <<call>> \o chat.groqCalls, NoGen, FALSE)

\* a photo with or without a caption
PhotoMessage(u, caption) == Update("photo", u, <<>>, caption, "none")

\* analytics.log_request(message.chat.id, 500, "vision_analysis")
VisionTokens == 500

\* message.caption if message.caption else the default question
VisionPrompt(caption) ==
    IF caption # <<>> THEN caption
    ELSE <<"Describe this image in detail and tell me what you see.">>

handle_photo(msg, e) ==
    LET u == msg.chat
        call == GroqCall("vision", <<Turn("user", VisionPrompt(msg.caption))>>, e.groqOut.ok)
        analysis == clean_markdown(e.groqOut.content)
        failed == safe_send_message("vision_failed", <<>>, e.send)
    IN  IF e.actionFails \/ e.fileFails THEN Replies(<<failed>>)
        ELSE IF ~groq
        THEN Replies(<<safe_send_message("backend_not_configured", <<>>, e.send)>>)
        ELSE IF ~e.groqOut.ok
        THEN Effect(memfile, metrics, tempFiles, <<failed>>, <<call>>, NoGen, FALSE)
        ELSE Effect(memfile, log_request(metrics, u, VisionTokens, "vision_analysis", now, e.logOk),
                    tempFiles, <<safe_send_message("image_analysis", analysis, e.send)>>,
                    <<call>>, NoGen, FALSE)

(***************************************************************************)
(* SpecChat: chat turns, resets, voice clips and photos, one at a time.    *)
(***************************************************************************)
\* the number of events handled in a run of SpecChat
MaxChatEvents == 2

\* the longest history found in the file at the start
MaxStored == 22

\* str(i)
RECURSIVE NumText(_)
NumText(i) ==
    LET digits == <<"0", "1", "2", "3", "4", "5", "6", "7", "8", "9">>
    IN  IF i < 10 THEN <<digits[i + 1]>> ELSE NumText(i \div 10) \o <<digits[(i % 10) + 1]>>

\* a stored history of n turns, the i-th with content str(i)
StoredHistory(n) == [i \in 1 .. n |-> Turn(IF i % 2 = 1 THEN "user" ELSE "assistant", NumText(i))]

\* the file at the start: absent, or u1 with a history as a dict, beside u2 with a
\* legacy list, or u1 alone with a legacy list; u1's history is empty, or around the
\* context window, or from just under the cap to MaxStored (a file written by another
\* version of the program)
ChatInitDocs ==
    {EmptyDoc}
    \cup { [u \in Users |-> IF u = "u1" THEN StoredDict(Profile(StoredHistory(n), SettingsOf("flux")))
                            ELSE StoredList(StoredHistory(1))] : n \in {0} \cup (ContextTurns - 1 .. ContextTurns + 1)
                                                                 \cup (HistoryCap - 1 .. MaxStored) }
    \cup { [u \in {"u1"} |-> StoredList(StoredHistory(n))] : n \in {MaxStored} }

InitChat ==
    /\ memfile \in ChatInitDocs
    /\ ConcIdle
    /\ groq \in BOOLEAN
    /\ gen = NoGen
    /\ DispatchIdle

FreeTextEvent ==
    /\ Polling
    /\ nEvents < MaxChatEvents
    /\ \E u \in Users, text \in {T_two_words, <<"/", "x">>} :
          LET msg == TextMessage(u, text)
          IN  /\ Dispatch(msg) = "handle_all_messages"
              /\ \E e \in ChatEnvs :
                    /\ ChatEnvUsed(msg, e)
                    /\ Handled("handle_all_messages", msg, e, handle_all_messages(msg, e))

ResetEvent ==
    /\ Polling
    /\ nEvents < MaxChatEvents
    /\ \E u \in Users :
          LET msg == TextMessage(u, <<"/">> \o W.reset)
          IN  /\ Dispatch(msg) = "handle_reset"
              /\ \E e \in ResetEnvs : Handled("handle_reset", msg, e, handle_reset(msg, e))

\* the answers to a voice clip: the calls before the file is written, the transcription
\* (it raises, or returns a blank or a spoken text), and the completion of the chat turn
VoiceEnvs ==
    { [DefaultEnv EXCEPT !.fileFails = f, !.transcription = t, !.groqOut = g] :
        f \in BOOLEAN,
        t \in {GroqRaises, GroqReturns(<<>>), GroqReturns(<<" ", "\n">>), GroqReturns(T_two_words)},
        g \in GroqOuts }

VoiceEnvUsed(e) ==
    /\ (e.fileFails \/ ~groq) => e.transcription = GroqRaises
    /\ (~e.transcription.ok \/ Strip(e.transcription.content) = <<>>) => e.groqOut = GroqRaises

VoiceEvent ==
    /\ Polling
    /\ nEvents < MaxChatEvents
    /\ \E u \in Users :
          LET msg == VoiceMessage(u)
          IN  /\ Dispatch(msg) = "handle_voice"
              /\ \E e \in VoiceEnvs :
                    /\ VoiceEnvUsed(e)
                    /\ Handled("handle_voice", msg, e, handle_voice(msg, e))

\* the answers to a photo: the chat action, the download of the file (get_file and
\* download_file), the vision completion
PhotoEnvs ==
    { [DefaultEnv EXCEPT !.actionFails = a, !.fileFails = f, !.groqOut = g] :
        a \in BOOLEAN, f \in BOOLEAN, g \in GroqOuts }

PhotoEnvUsed(e) ==
    /\ e.actionFails => ~e.fileFails
    /\ (e.actionFails \/ e.fileFails \/ ~groq) => e.groqOut = GroqRaises

PhotoEvent ==
    /\ Polling
    /\ nEvents < MaxChatEvents
    /\ \E u \in Users, caption \in {<<>>, T_two_words} :
          LET msg == PhotoMessage(u, caption)
          IN  /\ Dispatch(msg) = "handle_photo"
              /\ \E e \in PhotoEnvs :
                    /\ PhotoEnvUsed(e)
                    /\ Handled("handle_photo", msg, e, handle_photo(msg, e))

NextChat == FreeTextEvent \/ ResetEvent \/ VoiceEvent \/ PhotoEvent \/ ReturnToPolling

SpecChat == InitChat /\ [][NextChat]_vars

(***************************************************************************)
(* SpecCmd: the commands that take an argument, one event at a time.       *)
(***************************************************************************)
\* the number of events handled in a run of SpecCmd
MaxCmdEvents == 2

\* the file at the start: absent, or u1 with a history and no setting
CmdInitDocs ==
    { EmptyDoc,
      [u \in {"u1"} |-> StoredDict(Profile(<<Turn("user", T_hi), Turn("assistant", T_ok)>>,
                                           NoSettings))] }

\* the image providers during one call of generate: all fail and so does the
\* description; all fail; one of the first two returns an image; the last one
\* answers 200 with something that is no image
ImgSamples ==
    { EnvAllFail,
      [EnvAllFail EXCEPT !.groq_ok = TRUE],
      [EnvAllFail EXCEPT !.hf = RespImage],
      [EnvAllFail EXCEPT !.poll = RespImage],
      [EnvAllFail EXCEPT !.creative = RespNonImage] }

\* a command alone, and with the argument "red cat"
CommandTexts(words) ==
    { <<"/">> \o w : w \in words } \cup { <<"/">> \o w \o <<" ">> \o P_red_cat : w \in words }

\* the sends and the deletion all work, or every send fails, or the deletion raises
ImageTransports ==
    { [send |-> "ok", send2 |-> "ok", deleteFails |-> FALSE],
      [send |-> "failed", send2 |-> "failed", deleteFails |-> FALSE],
      [send |-> "ok", send2 |-> "ok", deleteFails |-> TRUE] }

\* the answers to an image command: without an argument, the read of the setting
\* and the send of the usage help; with one, the providers, send_photo and the sends
ImageEnvs(text) ==
    IF ~HasArgument(text)
    THEN { [DefaultEnv EXCEPT !.readFails = r, !.send = s] :
             r \in BOOLEAN, s \in {"ok", "failed"} }
    ELSE { [DefaultEnv EXCEPT !.img = i, !.photoFails = ph, !.send = tr.send,
                              !.send2 = tr.send2, !.deleteFails = tr.deleteFails] :
             i \in ImgSamples, ph \in BOOLEAN, tr \in ImageTransports }

\* the handler called the transport with this kind of message
Sends(eff, kind) == \E k \in 1 .. Len(eff.sent) : eff.sent[k].kind = kind

\* the answers the handler did not come to ask for are the default ones
ImageEnvUsed(name, e, eff) ==
    /\ e.photoFails => Sends(eff, "photo")
    /\ e.readFails => name # "handle_draw"

DrawEvent ==
    /\ Polling
    /\ nEvents < MaxCmdEvents
    /\ \E u \in Users, text \in CommandTexts({W.draw, W.imagine}) :
          LET msg == TextMessage(u, text)
          IN  \E name \in {"handle_draw", "handle_draw_default"} :
                 /\ Dispatch(msg) = name
                 /\ \E e \in ImageEnvs(text) :
                       \E eff \in {IF name = "handle_draw" THEN handle_draw(msg, e)
                                     ELSE handle_draw_default(msg, e)} :
                          ImageEnvUsed(name, e, eff) /\ Handled(name, msg, e, eff)

ImageModeEvent ==
    /\ Polling
    /\ nEvents < MaxCmdEvents
    /\ \E u \in Users, text \in CommandTexts({W.flux, W.pollin, W.art, W.auto}) :
          LET msg == TextMessage(u, text)
          IN  \E name \in {"handle_flux", "handle_pollinations", "handle_creative", "handle_auto"} :
                 /\ Dispatch(msg) = name
                 /\ \E e \in ImageEnvs(text) :
                       \E eff \in {CASE name = "handle_flux" -> handle_flux(msg, e)
                                      [] name = "handle_pollinations" -> handle_pollinations(msg, e)
                                      [] name = "handle_creative" -> handle_creative(msg, e)
                                      [] name = "handle_auto" -> handle_auto(msg, e)} :
                          ImageEnvUsed(name, e, eff) /\ Handled(name, msg, e, eff)

\* the answers to /search and /code: without an argument the send of the usage help;
\* with one, send_chat_action, the completion, the send and the insert of the row
AskEnvs(text) ==
    IF ~HasArgument(text)
    THEN { [DefaultEnv EXCEPT !.send = s] : s \in SendOutcomes }
    ELSE { [DefaultEnv EXCEPT !.actionFails = a, !.groqOut = g, !.send = s, !.logOk = l] :
             a \in BOOLEAN, g \in GroqOuts, s \in {"ok", "failed"}, l \in BOOLEAN }

AskEnvUsed(e) == (e.actionFails \/ ~groq) => e.groqOut = GroqRaises /\ e.logOk

SearchEvent ==
    /\ Polling
    /\ nEvents < MaxCmdEvents
    /\ \E u \in Users, text \in CommandTexts({W.search, W.find}) :
          LET msg == TextMessage(u, text)
          IN  /\ Dispatch(msg) = "handle_search"
              /\ \E e \in AskEnvs(text) :
                    /\ AskEnvUsed(e)
                    /\ Handled("handle_search", msg, e, handle_search(msg, e))

CodeEvent ==
    /\ Polling
    /\ nEvents < MaxCmdEvents
    /\ \E u \in Users, text \in CommandTexts({W.code}) :
          LET msg == TextMessage(u, text)
          IN  /\ Dispatch(msg) = "handle_code"
              /\ \E e \in AskEnvs(text) :
                    /\ AskEnvUsed(e)
                    /\ Handled("handle_code", msg, e, handle_code(msg, e))

ModelSelectionEvent ==
    /\ Polling
    /\ nEvents < MaxCmdEvents
    /\ \E u \in Users, m \in ImageModes :
          LET call == CallbackQuery(u, SetModelTag(m))
          IN  /\ DispatchCallback(call) = "handle_model_selection"
              /\ \E e \in SelectionEnvs :
                    Handled("handle_model_selection", call, e, handle_model_selection(call, e))

InitCmd ==
    /\ memfile \in CmdInitDocs
    /\ ConcIdle
    /\ groq \in BOOLEAN
    /\ gen = NoGen
    /\ DispatchIdle

NextCmd ==
    \/ DrawEvent
    \/ ImageModeEvent
    \/ SearchEvent
    \/ CodeEvent
    \/ ReturnToPolling

SpecCmd == InitCmd /\ [][NextCmd]_vars

(***************************************************************************)
(* SpecDraw: model selections and /draw commands, one event at a time.     *)
(***************************************************************************)
NextDraw == ModelSelectionEvent \/ DrawEvent \/ ReturnToPolling

SpecDraw == InitCmd /\ [][NextDraw]_vars

(***************************************************************************)
(* Analytics.get_current_metrics (bot.py 147-182).  Timestamps are seconds *)
(* of the database clock (CURRENT_TIMESTAMP, UTC).                         *)
(***************************************************************************)
\* datetime('now', '-1 minute')
MinuteLen == 60

\* DATE(timestamp): the number of the UTC calendar day
DayLen == 86400
DateOf_HalfDay(t) == t \div 43200
DateOf(t) == t \div DayLen

\* WHERE timestamp > datetime('now', '-1 minute')
RowsLastMinute(log, t) == { i \in 1 .. Len(log) : log[i].timestamp > t - MinuteLen }

\* WHERE DATE(timestamp) = DATE('now')
RowsToday(log, t) == { i \in 1 .. Len(log) : DateOf(log[i].timestamp) = DateOf(t) }

\* SUM(tokens) over the rows numbered in S
RECURSIVE SumTokens(_, _)
SumTokens(log, S) ==
    IF S = {} THEN 0
    ELSE LET i == CHOOSE j \in S : TRUE IN log[i].tokens + SumTokens(log, S \ {i})

\* SELECT request_type, COUNT ... GROUP BY request_type, as a dict
Breakdown(log, t) ==
    LET today == RowsToday(log, t)
    IN  [ty \in { log[i].request_type : i \in today } |->
            Cardinality({ i \in today : log[i].request_type = ty })]

get_current_metrics(log, t, queryFails) ==
    IF queryFails THEN ZeroMetrics
    ELSE [RPM |-> Cardinality(RowsLastMinute(log, t)),
          TPM |-> SumTokens(log, RowsLastMinute(log, t)),
          RPD |-> Cardinality(RowsToday(log, t)),
          breakdown |-> Breakdown(log, t)]

(***************************************************************************)
(* SpecMetrics: rows are logged, the clock advances, the metrics are asked *)
(* for.                                                                    *)
(***************************************************************************)
\* the number of rows logged in a run, and the number of advances of the clock
MaxLogRows == 2
MaxTicks == 2

\* at the start the clock is shortly before noon or shortly before midnight, and the
\* table is empty or holds a row of an hour ago
InitMetrics ==
    /\ memfile = EmptyDoc
    /\ ConcIdle
    /\ groq = FALSE
    /\ gen = NoGen
    /\ tempFiles = {}
    /\ obs = NoObs
    /\ nEvents = 0
    /\ stats = NoStats
    /\ md = NoMarkdown
    /\ now \in {NoonTime - 30, DayLen - 30}
    /\ metrics \in { <<>>, <<Row("u1", now - 3600, 30, "search")>> }

\* analytics.log_request(user_id, tokens, request_type)
LogRequest ==
    /\ Len(metrics) < MaxLogRows
    /\ \E u \in Users, request_type \in {"chat", "search"}, ok \in BOOLEAN :
          metrics' = log_request(metrics, u, 2, request_type, now, ok)
    /\ UNCHANGED <<memfile, memLock, pc, op, loc, groq, gen, now, tempFiles, obs, nEvents, stats, md, dbLock>>

\* time passes
Tick ==
    /\ nEvents < MaxTicks
    /\ \E d \in {1, 20, 45} : now' = now + d
    /\ nEvents' = nEvents + 1
    /\ UNCHANGED <<memfile, memLock, pc, op, loc, groq, gen, metrics, tempFiles, obs, stats, md, dbLock>>

\* analytics.get_current_metrics()
GetCurrentMetrics ==
    /\ \E queryFails \in BOOLEAN :
          stats' = [asked |-> TRUE, at |-> now, log |-> metrics, failed |-> queryFails,
                    result |-> get_current_metrics(metrics, now, queryFails)]
    /\ UNCHANGED <<memfile, memLock, pc, op, loc, groq, gen, metrics, now, tempFiles, obs, nEvents, md, dbLock>>

NextMetrics == LogRequest \/ Tick \/ GetCurrentMetrics

SpecMetrics == InitMetrics /\ [][NextMetrics]_vars

\* the table as the last query found it
AskedLog == stats.log

\* the query was answered, the table held at least one row, and every row was of
\* type chat and recorded within the 60 seconds before the query
OnlyRecentChat ==
    /\ stats.asked
    /\ ~stats.failed
    /\ Len(AskedLog) >= 1
    /\ \A i \in 1 .. Len(AskedLog) :
          /\ AskedLog[i].request_type = "chat"
          /\ AskedLog[i].timestamp <= stats.at
          /\ stats.at - AskedLog[i].timestamp <= 60

\* {'chat': n}
OnlyChat(n) == [ty \in {"chat"} |-> n]

(***************************************************************************)
(* C10 as stated: if the metric log holds exactly N >= 1 events, all of    *)
(* type chat and all recorded within the 60 seconds before the query, at   *)
(* any time of day, the breakdown of get_current_metrics is {'chat': N}.   *)
(***************************************************************************)
C10_BreakdownAtAnyTime ==
    OnlyRecentChat => stats.result.breakdown = OnlyChat(Len(AskedLog))

(***************************************************************************)
(* C10, amended: if the metric log holds exactly N >= 1 events, all of     *)
(* type chat, all recorded within the 60 seconds before the query and on   *)
(* the calendar day (of the database clock, UTC) of the query, and the     *)
(* query is answered, the breakdown of get_current_metrics is {'chat': N}. *)
(***************************************************************************)
C10_BreakdownSameDay ==
    ( /\ OnlyRecentChat
      /\ \A i \in 1 .. Len(AskedLog) :
            AskedLog[i].timestamp \div 86400 = stats.at \div 86400 )
    => stats.result.breakdown = OnlyChat(Len(AskedLog))

\* two chat rows, the first recorded before the clock advanced, asked for on their day
C10_Witness ==
    /\ OnlyRecentChat
    /\ Len(AskedLog) = 2
    /\ AskedLog[1].timestamp < stats.at
    /\ \A i \in 1 .. Len(AskedLog) : AskedLog[i].timestamp \div 86400 = stats.at \div 86400
    /\ stats.result.breakdown = OnlyChat(2)

(***************************************************************************)
(* C5: no exception propagates out of any handler.                         *)
(***************************************************************************)
C5_NoHandlerRaises == ~obs.raised

\* the chat turn came to its end: the reply was computed, stored and sent
ChatTurnDone ==
    /\ obs.handler = "handle_all_messages"
    /\ obs.sent # <<>>
    /\ obs.sent[1].kind = "chat_reply"

\* the history the store holds for the user of the update just handled
HistoryNow == UserDataOf(memfile, obs.update.chat).history

\* the history the handler read for that user as it started
HistoryRead == UserDataOf(LoadResult(obs.before, obs.env.readFails), obs.update.chat).history

C8_MessageList ==
    (obs.handler = "handle_all_messages" /\ obs.groqCalls # <<>>) =>
        LET history == HistoryRead
            n == IF Len(history) < 4 THEN Len(history) ELSE 4
            messages == obs.groqCalls[1].messages
        IN  /\ Len(messages) = n + 2
            /\ messages[1] = Turn("system", SYSTEM_PROMPT)
            /\ \A i \in 1 .. n : messages[1 + i] = history[Len(history) - n + i]
            /\ messages[n + 2] = Turn("user", obs.update.text)

\* a completion was asked for by a user whose history read had more than 4 entries
C8_Witness ==
    /\ obs.handler = "handle_all_messages"
    /\ obs.groqCalls # <<>>
    /\ Len(HistoryRead) > 4
    /\ Len(obs.groqCalls[1].messages) = 6

(***************************************************************************)
(* C2: on every exit path of handle_voice taken after the transient voice  *)
(* file has been written (the transcription succeeds, raises, is empty, or *)
(* the inference backend is not configured), the file has been removed by  *)
(* the time the handler returns.                                           *)
(***************************************************************************)
C2_VoiceFileRemoved ==
    (obs.handler = "handle_voice" /\ ~obs.env.fileFails)
    => VoiceFile(obs.update.chat, now) \notin tempFiles

(***************************************************************************)
(* C6: an image-generation command that names no provider mode (/draw,     *)
(* /imagine, /generate) with a prompt calls the image chain with the mode  *)
(* persisted as the user's image_model setting, or with auto when the user *)
(* has none.                                                               *)
(***************************************************************************)
C6_DrawUsesPersistedMode ==
    ( /\ obs.handler \in {"handle_draw", "handle_draw_default"}
      /\ Len(Split(obs.update.text)) > 1 )
    => /\ gen.called
       /\ gen.mode = SettingGet(UserDataOf(obs.before, obs.update.chat), "auto")

\* the handlers of the commands that take an argument, each with its usage help
UsageOf ==
    [ handle_draw |-> "draw_usage", handle_draw_default |-> "image_usage",
      handle_flux |-> "image_usage", handle_pollinations |-> "image_usage",
      handle_creative |-> "image_usage", handle_auto |-> "image_usage",
      handle_search |-> "search_usage", handle_code |-> "code_usage" ]

\* such a command was handled, and its text was the command alone
CommandAlone ==
    /\ obs.handler \in DOMAIN UsageOf
    /\ Len(Split(obs.update.text)) = 1

MaxTail == 3

\* how far below the cap the runs of plain characters start
PadSlack == 4

Filler(n) == [i \in 1..n |-> "a"]

Tails == UNION {[1..k -> {Backtick, "*", "_"}] : k \in 0..MaxTail}

MarkdownTexts ==
    {Filler(n) \o tail : n \in {0} \cup ((MaxTextLen - PadSlack)..MaxTextLen), tail \in Tails}

InitMarkdown ==
    /\ memfile = EmptyDoc
    /\ ConcIdle
    /\ groq = FALSE
    /\ gen = NoGen
    /\ metrics = <<>>
    /\ now = NoonTime
    /\ tempFiles = {}
    /\ obs = NoObs
    /\ nEvents = 0
    /\ stats = NoStats
    /\ md \in {[called |-> FALSE, text |-> text, result |-> <<>>] : text \in MarkdownTexts}

\* clean_markdown(text)
CallCleanMarkdown ==
    /\ ~md.called
    /\ md' = [called |-> TRUE, text |-> md.text, result |-> clean_markdown(md.text)]
    /\ UNCHANGED <<memfile, memLock, pc, op, loc, groq, gen, metrics, now, tempFiles, obs,
                   nEvents, stats, dbLock>>

NextMarkdown == CallCleanMarkdown

SpecMarkdown == InitMarkdown /\ [][NextMarkdown]_vars

OddFences(text) == StrCount(text, Fence) % 2 # 0

\* C11: for a text with an odd number of code-fence markers, what clean_markdown returns
\* is at most 4000 characters long and begins with the first 4000 characters of the whole
\* text followed by a newline and a closing fence: the fence is appended to the full
\* text, the cap is applied afterwards
C11_FenceThenCap ==
    (md.called /\ OddFences(md.text)) =>
        /\ Len(md.result) <= MaxTextLen
        /\ StartsWith(md.result, TakeFirst(md.text \o <<"\n">> \o Fence, MaxTextLen))

\* a text with an odd number of fences so long that the cap cuts into its closing fence
C11_Witness ==
    /\ md.called
    /\ OddFences(md.text)
    /\ Len(md.text) < MaxTextLen
    /\ Len(md.text) + 4 > MaxTextLen

(***************************************************************************)
(* SpecLocks: the two locks.  Each store method takes its store's lock in  *)
(* a `with` block, which releases it on every way out, a raise included;   *)
(* what a handler thread does to the locks is the sequence of the `with`   *)
(* blocks of the store methods it calls.  The contents of the stores are   *)
(* left as they are here: SpecConc, SpecChat and SpecMetrics model them.   *)
(***************************************************************************)
Acquire(lock) == <<"acquire", lock>>

Release(lock) == <<"release", lock>>

\* a block whose body takes the other store's lock before it leaves the block
WithLock_Nested(lock, inner) ==
    <<Acquire(lock)>> \o inner \o
    <<Acquire(IF lock = "db" THEN "mem" ELSE "db"), Release(IF lock = "db" THEN "mem" ELSE "db"),
      Release(lock)>>

\* `with self.lock:` around a body that takes the locks of `inner`
WithLock(lock, inner) == <<Acquire(lock)>> \o inner \o <<Release(lock)>>

\* Analytics.log_request, Analytics.get_current_metrics: cursor calls only inside the block
analytics_call == WithLock("db", <<>>)

\* AdvancedMemory.load, AdvancedMemory.save: file calls only inside the block
memory_load == WithLock("mem", <<>>)

memory_save == WithLock("mem", <<>>)

memory_get_user_data == memory_load

memory_save_user_data == memory_load \o memory_save

\* the store calls of a handler, in the order of its code
LockCode(handler) ==
    CASE handler = "handle_stats" -> analytics_call \o memory_load
      [] handler = "handle_all_messages" ->
            memory_get_user_data \o memory_save_user_data \o analytics_call
      [] handler = "process_image_generation" -> memory_get_user_data \o analytics_call
      [] handler = "handle_model_selection" -> memory_get_user_data \o memory_save_user_data
      [] handler = "handle_search" -> analytics_call

LockHandlers ==
    {"handle_stats", "handle_all_messages", "process_image_generation",
     "handle_model_selection", "handle_search"}

LockOf(name) == IF name = "db" THEN dbLock ELSE memLock

Holds(p) == {name \in {"db", "mem"} : LockOf(name) = p}

InitLocks ==
    /\ memfile = EmptyDoc
    /\ ConcIdle
    /\ groq = FALSE
    /\ gen = NoGen
    /\ DispatchIdle

\* the dispatcher hands an update to a worker thread
StartHandler(p, handler) ==
    /\ pc[p] = "idle"
    /\ op' = [op EXCEPT ![p] = [NoOp EXCEPT !.kind = handler, !.code = LockCode(handler)]]
    /\ pc' = [pc EXCEPT ![p] = "running"]
    /\ UNCHANGED <<memfile, memLock, loc, groq, gen, dispVars, dbLock>>

\* threading.Lock.__enter__: taken only when free; the lock is not reentrant
AcquireLock(p) ==
    /\ pc[p] = "running"
    /\ op[p].code # <<>>
    /\ Head(op[p].code)[1] = "acquire"
    /\ LockOf(Head(op[p].code)[2]) = 0
    /\ memLock' = IF Head(op[p].code)[2] = "mem" THEN p ELSE memLock
    /\ dbLock' = IF Head(op[p].code)[2] = "db" THEN p ELSE dbLock
    /\ op' = [op EXCEPT ![p].code = Tail(@)]
    /\ UNCHANGED <<memfile, pc, loc, groq, gen, dispVars>>

\* threading.Lock.__exit__: the body has run or raised
ReleaseLock(p) ==
    /\ pc[p] = "running"
    /\ op[p].code # <<>>
    /\ Head(op[p].code)[1] = "release"
    /\ memLock' = IF Head(op[p].code)[2] = "mem" THEN 0 ELSE memLock
    /\ dbLock' = IF Head(op[p].code)[2] = "db" THEN 0 ELSE dbLock
    /\ op' = [op EXCEPT ![p].code = Tail(@)]
    /\ UNCHANGED <<memfile, pc, loc, groq, gen, dispVars>>

\* the handler returns: at its end, or earlier between two store calls (a reply sent
\* and `return`, or its except block)
HandlerReturns(p) ==
    /\ pc[p] = "running"
    /\ Holds(p) = {}
    /\ pc' = [pc EXCEPT ![p] = "done"]
    /\ UNCHANGED <<memfile, memLock, op, loc, groq, gen, dispVars, dbLock>>

NextLocks ==
    \/ \E p \in Procs, handler \in LockHandlers : StartHandler(p, handler)
    \/ \E p \in Procs : AcquireLock(p)
    \/ \E p \in Procs : ReleaseLock(p)
    \/ \E p \in Procs : HandlerReturns(p)

SpecLocks == InitLocks /\ [][NextLocks]_vars

\* the thread stands before a `with` block whose lock is taken
Blocked(p) ==
    /\ pc[p] = "running"
    /\ op[p].code # <<>>
    /\ Head(op[p].code)[1] = "acquire"
    /\ LockOf(Head(op[p].code)[2]) # 0

WillAcquire(p, name) == \E i \in 1..Len(op[p].code) : op[p].code[i] = Acquire(name)

\* C12: no thread holds the Conversation Store lock and the Counter Store lock at the
\* same time, and whenever some handler thread is running, some running thread is not
\* blocked on a lock: no reachable state is a deadlock on the two locks
C12_NeverBothLocks ==
    /\ \A p \in Procs : ~(memLock = p /\ dbLock = p)
    /\ (\E p \in Procs : pc[p] = "running") =>
           (\E p \in Procs : pc[p] = "running" /\ ~Blocked(p))

\* one thread is inside a Conversation Store block and has a Counter Store call to come,
\* another is inside a Counter Store block and has a Conversation Store call to come
C12_Witness ==
    \E p, q \in Procs :
        /\ p # q
        /\ memLock = p /\ WillAcquire(p, "db")
        /\ dbLock = q /\ WillAcquire(q, "mem")

(***************************************************************************)
(* The backend-not-configured condition.                                   *)
(***************************************************************************)
\* the event is one that asks the inference service: a free text, /search or /code with
\* an argument, a voice clip, a photo
AsksInference ==
    \/ obs.handler = "handle_all_messages"
          /\ obs.update.text # <<>> /\ ~StartsWith(obs.update.text, <<"/">>)
    \/ obs.handler \in {"handle_search", "handle_code"} /\ HasArgument(obs.update.text)
    \/ obs.handler \in {"handle_voice", "handle_photo"}

SentKinds == {obs.sent[i].kind : i \in 1..Len(obs.sent)}

\* C13: with no inference credential configured, every event that asks the inference
\* service sends the backend-not-configured message and makes no call to the service
C13_NoCredentialReported ==
    (AsksInference /\ ~groq) =>
        ("backend_not_configured" \in SentKinds /\ obs.groqCalls = <<>>)

(***************************************************************************)
(* SpecStore: the handler threads of SpecConc, which also read profiles.   *)
(* get_user_data makes one load(), a single block under the lock, and      *)
(* computes the profile from what it returned.                             *)
(***************************************************************************)
\* the file at the start: absent; u1 alone, as a dict or as a legacy list; u1 as a dict
\* beside u2 as a legacy list
StoreInitDocs ==
    { EmptyDoc,
      [u \in {"u1"} |-> StoredDict(Profile(StoredHistory(2), SettingsOf("creative")))],
      [u \in {"u1"} |-> StoredList(StoredHistory(3))],
      [u \in Users |-> IF u = "u1" THEN StoredDict(Profile(<<>>, NoSettings))
                       ELSE StoredList(StoredHistory(2))] }

InitStore ==
    /\ memfile \in StoreInitDocs
    /\ ConcIdle
    /\ groq = FALSE
    /\ gen = NoGen
    /\ DispatchIdle

\* a handler thread calls memory.get_user_data(u); the profile it returns is kept in
\* op[p].profile, the document load() returned in loc[p].data
GetUserData(p, u, readFails) ==
    /\ pc[p] = "idle"
    /\ memLock = 0
    /\ loc' = [loc EXCEPT ![p] = [data |-> LoadResult(memfile, readFails),
                                  io_failed |-> readFails]]
    /\ op' = [op EXCEPT ![p] = [kind |-> "get_user_data", user |-> u,
                                profile |-> UserDataOf(LoadResult(memfile, readFails), u),
                                code |-> <<>>]]
    /\ pc' = [pc EXCEPT ![p] = "done"]
    /\ UNCHANGED <<memfile, memLock, groq, gen, dispVars, dbLock>>

\* a handler thread calls memory.update_setting(u, "image_model", mode): get_user_data
\* reads the profile and the setting is put into it; save_user_data(u, profile) follows,
\* with the steps of SpecConc
CallUpdateSetting(p, u, mode, readFails) ==
    /\ pc[p] = "idle"
    /\ memLock = 0
    /\ loc' = [loc EXCEPT ![p] = [data |-> EmptyDoc, io_failed |-> readFails]]
    /\ op' = [op EXCEPT ![p] =
                 [kind |-> "update_setting", user |-> u,
                  profile |-> SettingPut(UserDataOf(LoadResult(memfile, readFails), u), mode),
                  code |-> <<>>]]
    /\ pc' = [pc EXCEPT ![p] = "sud_load"]
    /\ UNCHANGED <<memfile, memLock, groq, gen, dispVars, dbLock>>

NextStore ==
    \/ NextConc
    \/ \E p \in Procs, u \in Users, readFails \in BOOLEAN : GetUserData(p, u, readFails)

SpecStore == InitStore /\ [][NextStore]_vars

\* SpecSetting: the threads of SpecStore, and threads that store a setting
NextSetting ==
    \/ NextStore
    \/ \E p \in Procs, u \in Users, mode \in ImageModes, readFails \in BOOLEAN :
          CallUpdateSetting(p, u, mode, readFails)

SpecSetting == InitStore /\ [][NextSetting]_vars

\* C14: a call of get_user_data for a user with no entry in the store returns exactly
\* {history: [], settings: {}}
C14_AbsentUserDefault ==
    [][\A p \in Procs, u \in Users, readFails \in BOOLEAN :
          (GetUserData(p, u, readFails) /\ u \notin DOMAIN memfile) =>
              op'[p].profile = [history |-> <<>>, settings |-> NoSettings]]_vars

\* get_user_data has returned for a user who has no entry, beside a user who has one
C14_Witness ==
    \E p \in Procs :
        /\ op[p].kind = "get_user_data"
        /\ ~loc[p].io_failed
        /\ op[p].user \notin DOMAIN memfile
        /\ memfile # EmptyDoc

\* C15 as stated: a call of get_user_data for a user whose stored entry is a bare list L
\* returns {history: L, settings: {}}, the turns in their stored order
C15_LegacyListAlways ==
    [][\A p \in Procs, u \in Users, readFails \in BOOLEAN :
          (GetUserData(p, u, readFails) /\ u \in DOMAIN memfile /\ memfile[u].legacy) =>
              op'[p].profile = [history |-> memfile[u].history, settings |-> NoSettings]]_vars

\* C15, amended: a call of get_user_data whose load() reads the file, for a user whose
\* stored entry is a bare list L, returns {history: L, settings: {}}, the turns in
\* their stored order
C15_LegacyListWhenRead ==
    [][\A p \in Procs, u \in Users :
          (GetUserData(p, u, FALSE) /\ u \in DOMAIN memfile /\ memfile[u].legacy) =>
              op'[p].profile = [history |-> memfile[u].history, settings |-> NoSettings]]_vars

\* get_user_data has returned, its load() having read the file, for a user stored as a
\* list of several turns
C15_Witness ==
    \E p \in Procs :
        /\ op[p].kind = "get_user_data"
        /\ ~loc[p].io_failed
        /\ op[p].user \in DOMAIN memfile
        /\ memfile[op[p].user].legacy
        /\ Len(memfile[op[p].user].history) >= 2
        /\ op[p].profile.history = memfile[op[p].user].history

(***************************************************************************)
(* The metric log under the handlers.                                      *)
(***************************************************************************)
IsPrefix(s, t) == Len(s) <= Len(t) /\ SubSeq(t, 1, Len(s)) = s

\* C16: whatever a handler does, the rows the log held before the event are still
\* there, unchanged and in place, and at most one row has been added behind them; none
\* is added when the insert fails, and the failure does not leave the handler
C16_LogAppendOnly ==
    (obs.handler # "none") =>
        /\ IsPrefix(obs.logBefore, metrics)
        /\ Len(metrics) <= Len(obs.logBefore) + 1
        /\ ~obs.env.logOk => (metrics = obs.logBefore /\ ~obs.raised)

\* a handler has added a row to a log that held one already
C16_Witness ==
    /\ obs.handler # "none"
    /\ Len(obs.logBefore) >= 1
    /\ Len(metrics) = Len(obs.logBefore) + 1

(***************************************************************************)
(* A voice clip nobody can make out.                                       *)
(***************************************************************************)
\* the transcription returned, and its text is empty or blank
BlankTranscript ==
    /\ obs.handler = "handle_voice"
    /\ ~obs.env.fileFails
    /\ groq
    /\ obs.env.transcription.ok
    /\ \A i \in 1..Len(obs.env.transcription.content) :
          obs.env.transcription.content[i] \in Whitespace

\* C17: a voice clip whose transcript is empty or blank is answered with the
\* could-not-hear message alone; no chat completion is asked for, the stored profiles
\* are as before, and no row is added to the metric log
C17_BlankTranscript ==
    BlankTranscript =>
        /\ SentKinds = {"could_not_hear"}
        /\ \A i \in 1..Len(obs.groqCalls) : obs.groqCalls[i].purpose = "transcription"
        /\ memfile = obs.before
        /\ metrics = obs.logBefore

\* a blank (not empty) transcript for a user who has a stored history
C17_Witness ==
    /\ BlankTranscript
    /\ obs.env.transcription.content # <<>>
    /\ obs.update.chat \in DOMAIN memfile
    /\ memfile[obs.update.chat].history # <<>>

(***************************************************************************)
(* The image mode a button press has stored.                               *)
(***************************************************************************)
\* thread p has handled a press for its user: update_setting has returned, and none of
\* its reads and writes of the file failed
PressHandled(p) ==
    /\ op[p].kind = "update_setting"
    /\ pc[p] = "done"
    /\ ~loc[p].io_failed

\* thread q handles an event of another user, and none of its reads and writes fails
OtherUsersEvent(p, q) ==
    /\ op[q].user # op[p].user
    /\ ~loc[q].io_failed

\* C18: once a press of set_model_<mode> for u has been handled without store failure,
\* get_setting(u, "image_model") returns <mode>, whatever events of other users the other
\* threads handle
C18_SettingKept ==
    \A p \in Procs :
        (PressHandled(p) /\ \A q \in Procs \ {p} : OtherUsersEvent(p, q)) =>
            SettingGet(UserDataOf(memfile, op[p].user), "auto") =
                SettingGet(op[p].profile, "auto")

(***************************************************************************)
(* The order of the chain, and what it returns as an image.                *)
(***************************************************************************)
\* the place of a provider in the chain; the router URL is the primary provider's
ChainRank(provider) ==
    IF provider \in {"hf", "hf_router"} THEN 1
    ELSE IF provider = "pollinations" THEN 2
    ELSE 3

\* C19: in auto mode the requests go to the primary provider (its router URL after its
\* first URL), then the secondary, then the creative one; every request but the last
\* got a failure for an answer; and a request answered with an image is the last one,
\* with no inference call after it
C19_AutoChainOrder ==
    (gen.called /\ gen.mode = "auto") =>
        /\ \A i, j \in 1..Len(gen.calls) :
              i < j =>
                 /\ ChainRank(gen.calls[i].provider) <= ChainRank(gen.calls[j].provider)
                 /\ ChainRank(gen.calls[i].provider) = ChainRank(gen.calls[j].provider) =>
                       (gen.calls[i].provider = "hf" /\ gen.calls[j].provider = "hf_router")
                 /\ SoftFailure(gen.calls[i].resp)
        /\ \A i \in 1..Len(gen.calls) :
              ~SoftFailure(gen.calls[i].resp) => (i = Len(gen.calls) /\ gen.groqCalls = <<>>)

\* the two first providers failed, the router URL included, and the third answered with
\* an image
C19_Witness ==
    /\ gen.called
    /\ gen.mode = "auto"
    /\ Len(gen.calls) = 4
    /\ ~SoftFailure(gen.calls[4].resp)
    /\ gen.groqCalls = <<>>

\* C20: when generate returns the content of a response as an image, that response had
\* status 200 and an image content type, whichever provider or URL it came from
C20_BytesAreImages ==
    (gen.called /\ gen.res.kind = "bytes") =>
        (gen.calls # <<>> /\ ~SoftFailure(gen.calls[Len(gen.calls)].resp))

(***************************************************************************)
(* The retry of the primary provider.                                      *)
(***************************************************************************)
\* the places in gen.calls of the requests made to a provider
RequestsTo(provider) == {i \in 1..Len(gen.calls) : gen.calls[i].provider = provider}

\* C21: in one call of generate the first URL of the primary provider is requested at
\* most once and its router URL at most once, and the router URL is requested exactly
\* when the first request was answered with status 410: no other status and no
\* exception of the first request leads to a second request
C21_OneRetryOn410 ==
    gen.called =>
        /\ Cardinality(RequestsTo("hf")) <= 1
        /\ Cardinality(RequestsTo("hf_router")) <= 1
        /\ (RequestsTo("hf_router") # {}) <=>
              (\E i \in RequestsTo("hf") :
                  ~gen.calls[i].resp.exc /\ gen.calls[i].resp.status = 410)
        /\ \A i \in RequestsTo("hf_router") : i = 2 /\ gen.calls[1].provider = "hf"

\* the first request was answered 410 and the router URL failed as well: the chain has
\* gone on to the next provider without a third request to the primary one
C21_Witness ==
    /\ gen.called
    /\ gen.mode = "auto"
    /\ RequestsTo("hf_router") = {2}
    /\ SoftFailure(gen.calls[2].resp)
    /\ Len(gen.calls) >= 3

(***************************************************************************)
(* What a chat turn persists.                                              *)
(***************************************************************************)
\* the history the store held for the user before the event
HistoryBefore == UserDataOf(obs.before, obs.update.chat).history

\* the reply of the turn: the completion's text after clean_markdown
ReplyOfTurn == clean_markdown(obs.env.groqOut.content)

NewTurns == <<Turn("user", obs.update.text), Turn("assistant", ReplyOfTurn)>>

\* C22 as stated: after a chat turn whose inference succeeded, the history persisted
\* for the user is the last 20 entries of the history stored before followed by the
\* user turn and the assistant turn, and the assistant turn holds the text sent
C22_HistoryAsStated ==
    ChatTurnDone =>
        /\ HistoryNow = TakeLast(HistoryBefore \o NewTurns, 20)
        /\ obs.sent[1].text = ReplyOfTurn

\* C22, amended: after a chat turn whose inference succeeded and whose read and write
\* of the store succeeded, the history persisted for the user is the last 20 entries
\* of the stored history followed by the user turn and the assistant turn; the
\* assistant turn holds the text sent when the first send was accepted
C22_HistoryPersisted ==
    (ChatTurnDone /\ ~obs.env.readFails /\ ~obs.env.saveFails) =>
        /\ HistoryNow = TakeLast(HistoryBefore \o NewTurns, 20)
        /\ obs.env.send = "ok" => obs.sent[1].text = ReplyOfTurn

\* a turn that found 19 entries or more, so that entries of the stored history are
\* dropped for the new turns
C22_Witness ==
    /\ ChatTurnDone
    /\ ~obs.env.readFails /\ ~obs.env.saveFails
    /\ obs.env.send = "ok"
    /\ Len(HistoryBefore) >= 19
    /\ Len(HistoryNow) = 20
    /\ HistoryNow[20] = Turn("assistant", obs.sent[1].text)

(***************************************************************************)
(* A chat turn whose completion raises.                                    *)
(***************************************************************************)
InferenceRaised ==
    /\ obs.handler = "handle_all_messages"
    /\ obs.groqCalls # <<>>
    /\ ~obs.groqCalls[1].ok

\* C23: when the completion of a free-text turn raises, the apology is the one message
\* sent, the completion is not asked for again, the store file is as it was before the
\* turn, and no row is added to the metric log
C23_FailedTurnLeavesNoTrace ==
    InferenceRaised =>
        /\ SentKinds = {"apology"}
        /\ Len(obs.groqCalls) = 1
        /\ memfile = obs.before
        /\ metrics = obs.logBefore

\* the completion raised for a user with a stored history, after an event that had
\* added a row to the log
C23_Witness ==
    /\ InferenceRaised
    /\ HistoryBefore # <<>>
    /\ metrics # <<>>

(***************************************************************************)
(* What /reset changes and what it leaves.                                 *)
(***************************************************************************)
\* the stored entry of user v is in file g what it is in file f: absent in both, or the
\* same entry
SameEntry(f, g, v) ==
    /\ (v \in DOMAIN f) <=> (v \in DOMAIN g)
    /\ v \in DOMAIN f => g[v] = f[v]

\* C24: after a /reset of user u the stored history of u is empty, the settings of u
\* are what they were, the entry of every other user is what it was, and the metric
\* log is what it was
C24_ResetFrame ==
    (obs.handler = "handle_reset") =>
        /\ UserDataOf(memfile, obs.update.chat).history = <<>>
        /\ UserDataOf(memfile, obs.update.chat).settings =
              UserDataOf(obs.before, obs.update.chat).settings
        /\ \A v \in Users \ {obs.update.chat} : SameEntry(obs.before, memfile, v)
        /\ metrics = obs.logBefore

(***************************************************************************)
(* What save_user_data changes.                                            *)
(***************************************************************************)
\* C25: the write of a save_user_data(u, p) that runs alone leaves the entry of every
\* user other than u as it was, a failed read of the file during the call included
C25_OnlyOwnEntry ==
    [][\A p \in Procs, saveFails \in BOOLEAN :
          (SaveWrite(p, saveFails) /\ \A q \in Procs \ {p} : pc[q] = "idle") =>
              \A v \in Users \ {op[p].user} : SameEntry(memfile, memfile', v)]_vars

(***************************************************************************)
(* SpecProfile: handler threads that read a profile, change it and write   *)
(* it back: a chat turn whose completion returned, a /reset, a press of a  *)
(* model button.  Each starts with get_user_data (one load() under the     *)
(* lock) and ends with save_user_data, whose steps are those of SpecConc.  *)
(***************************************************************************)
\* handle_all_messages up to memory.save_user_data: the profile read, the completion
\* asked for and returned, the two turns appended
CallChatTurn(p, u, readFails) ==
    /\ pc[p] = "idle"
    /\ memLock = 0
    /\ loc' = [loc EXCEPT ![p] = [data |-> EmptyDoc, io_failed |-> readFails]]
    /\ op' = [op EXCEPT ![p] =
                 [kind |-> "chat_turn", user |-> u,
                  profile |->
                      LET user_data == UserDataOf(LoadResult(memfile, readFails), u)
                      IN  Profile(ExtendHistory(user_data.history, T_two_words,
                                                clean_markdown(T_ok)),
                                  user_data.settings),
                  code |-> <<>>]]
    /\ pc' = [pc EXCEPT ![p] = "sud_load"]
    /\ UNCHANGED <<memfile, memLock, groq, gen, dispVars, dbLock>>

\* handle_reset up to memory.save_user_data: the profile read, its history emptied
CallReset(p, u, readFails) ==
    /\ pc[p] = "idle"
    /\ memLock = 0
    /\ loc' = [loc EXCEPT ![p] = [data |-> EmptyDoc, io_failed |-> readFails]]
    /\ op' = [op EXCEPT ![p] =
                 [kind |-> "reset", user |-> u,
                  profile |-> Profile(<<>>, UserDataOf(LoadResult(memfile, readFails), u).settings),
                  code |-> <<>>]]
    /\ pc' = [pc EXCEPT ![p] = "sud_load"]
    /\ UNCHANGED <<memfile, memLock, groq, gen, dispVars, dbLock>>

NextProfile ==
    \/ \E p \in Procs, u \in Users, readFails \in BOOLEAN : CallChatTurn(p, u, readFails)
    \/ \E p \in Procs, u \in Users, readFails \in BOOLEAN : CallReset(p, u, readFails)
    \/ \E p \in Procs, u \in Users, mode \in ImageModes, readFails \in BOOLEAN :
          CallUpdateSetting(p, u, mode, readFails)
    \/ \E p \in Procs : LoadAcquire(p)
    \/ \E p \in Procs, readFails \in BOOLEAN : LoadRead(p, readFails)
    \/ \E p \in Procs : SaveAcquire(p)
    \/ \E p \in Procs, saveFails \in BOOLEAN : SaveWrite(p, saveFails)

SpecProfile == InitStore /\ [][NextProfile]_vars

\* threads p and q are the only ones that ran; p handled a chat turn or a /reset and q
\* a press, both for the same user, both to their end and without store failure
TurnAndPressDone(p, q) ==
    /\ op[p].kind \in {"chat_turn", "reset"}
    /\ op[q].kind = "update_setting"
    /\ op[p].user = op[q].user
    /\ pc[p] = "done" /\ pc[q] = "done"
    /\ ~loc[p].io_failed /\ ~loc[q].io_failed
    /\ \A o \in Procs \ {p, q} : pc[o] = "idle"

\* C26: when a chat turn (or a /reset) and a press for the same user have both been
\* handled, the stored profile is what the two give one after the other, in either
\* order: the history of the turn (or the empty history) with the mode of the press
C26_BothUpdatesKept ==
    \A p, q \in Procs :
        TurnAndPressDone(p, q) =>
            UserDataOf(memfile, op[p].user) = Profile(op[p].profile.history, op[q].profile.settings)

(***************************************************************************)
(* The text clean_markdown returns.                                        *)
(***************************************************************************)
\* C27: whatever the text, what clean_markdown returns is at most 4000 characters long
\* and holds an even number of code fences
C27_ShortAndClosed ==
    md.called =>
        /\ Len(md.result) <= 4000
        /\ StrCount(md.result, Fence) % 2 = 0

====
